---- MODULE Spec2Model ----
(***************************************************************************)
(* light-monitor-kyiv (src/main.py): outage schedules of two sources are   *)
(* turned into 48-slot timelines, compressed into periods, reconciled per  *)
(* group and day, rendered, and delivered when the fingerprint changed.    *)
(*                                                                         *)
(* Conventions.  A Python dict is a function whose DOMAIN is its key set;  *)
(* a Python list is a sequence, so Python index i is index i + 1 here.     *)
(* None is the record None.  A duration in hours (a multiple of 0.5) is    *)
(* held as its count of half-hours, hours * 2.                             *)
(***************************************************************************)
EXTENDS Integers, Sequences, FiniteSets, TLC

VARIABLES
    pc,     \* position of the running function
    arg,    \* its arguments
    ret,    \* its result (or the value it is building)
    loc,    \* its locals
    cache   \* content of CACHE_FILE, None while the file does not exist

vars == <<pc, arg, ret, loc, cache>>

None == [none |-> TRUE]

NoLocals == [k |-> 0]

\* dict.get(key, default)
Get(d, key, default) == IF key \in DOMAIN d THEN d[key] ELSE default

Min(a, b) == IF a <= b THEN a ELSE b

Digit == <<"0", "1", "2", "3", "4", "5", "6", "7", "8", "9">>

\* str(n) of an int n >= 0
RECURSIVE str(_)
str(n) == IF n < 10 THEN Digit[n + 1] ELSE str(n \div 10) \o Digit[(n % 10) + 1]

\* f"{n:02d}" of an int n >= 0
fmt02d(n) == IF n < 10 THEN "0" \o str(n) ELSE str(n)

---------------------------------------------------------------------------
\* Clock times

SlotMinutes == 30

format_time(minutes) ==
    LET hours == minutes \div 60
        mins  == minutes % 60
    IN  IF hours = 24 THEN "24:00" ELSE fmt02d(hours) \o ":" \o fmt02d(mins)

format_slot_time(slot) == format_time(slot * SlotMinutes)

---------------------------------------------------------------------------
\* Source A: per-hour status codes

HoursPerDay == 24

\* a faulty variant: an uncertain outage counted as a firm one
hour_halves_maybe_off(status) ==
    IF status = "yes" THEN <<TRUE, TRUE>>
    ELSE IF status \in {"no", "maybe"} THEN <<FALSE, FALSE>>
    ELSE IF status \in {"first", "mfirst"} THEN <<FALSE, TRUE>>
    ELSE IF status \in {"second", "msecond"} THEN <<TRUE, FALSE>>
    ELSE <<TRUE, TRUE>>

\* a faulty variant: `first` and `second` taken for each other
hour_halves_swapped(status) ==
    IF status = "yes" THEN <<TRUE, TRUE>>
    ELSE IF status = "no" THEN <<FALSE, FALSE>>
    ELSE IF status = "first" THEN <<TRUE, FALSE>>
    ELSE IF status = "second" THEN <<FALSE, TRUE>>
    ELSE <<TRUE, TRUE>>

\* <<first_half, second_half>> of one hour
hour_halves(status) ==
    IF status = "yes" THEN <<TRUE, TRUE>>
    ELSE IF status = "no" THEN <<FALSE, FALSE>>
    ELSE IF status = "first" THEN <<FALSE, TRUE>>
    ELSE IF status = "second" THEN <<TRUE, FALSE>>
    ELSE IF status \in {"maybe", "mfirst", "msecond"} THEN <<TRUE, TRUE>>
    ELSE <<TRUE, TRUE>>

\* str(hour) of the hours of a day
hour_keys == [hour \in 1..HoursPerDay |-> str(hour)]

RECURSIVE github_hours(_, _, _)
github_hours(day_data, hour, slots) ==
    IF hour > HoursPerDay THEN slots
    ELSE LET hour_key == hour_keys[hour]
             status   == Get(day_data, hour_key, "yes")
             halves   == hour_halves(status)
         IN  github_hours(day_data, hour + 1,
                          Append(Append(slots, halves[1]), halves[2]))

parse_github_day(day_data) == github_hours(day_data, 1, <<>>)

---------------------------------------------------------------------------
\* Source B: {start, end, type} intervals in minutes

NumSlots == 48

AllOn == [i \in 1..NumSlots |-> TRUE]

\* one turn of the loop over day_data["slots"]; minutes are never negative
yasno_apply(slots, slot) ==
    LET start_min == Get(slot, "start", 0)
        end_min   == Get(slot, "end", 0)
        slot_type == Get(slot, "type", "NotPlanned")
        start_idx == start_min \div SlotMinutes
        end_idx   == end_min \div SlotMinutes
        is_on     == (slot_type = "NotPlanned")
    IN  [i \in 1..NumSlots |->
            IF start_idx <= i - 1 /\ i - 1 < Min(end_idx, NumSlots)
            THEN is_on ELSE slots[i]]

RECURSIVE yasno_intervals(_, _, _)
yasno_intervals(intervals, k, slots) ==
    IF k > Len(intervals) THEN slots
    ELSE yasno_intervals(intervals, k + 1, yasno_apply(slots, intervals[k]))

\* "not day_data": None or the empty dict
Falsy(d) == d = None \/ DOMAIN d = {}

parse_yasno_day(day_data) ==
    IF Falsy(day_data) \/ "slots" \notin DOMAIN day_data THEN AllOn
    ELSE yasno_intervals(day_data["slots"], 1, AllOn)

---------------------------------------------------------------------------
\* Period compression

Period(start_slot, end_slot, status) ==
    [start |-> format_slot_time(start_slot),
     end   |-> format_slot_time(end_slot),
     is_on |-> status,
     hours |-> end_slot - start_slot]

RECURSIVE periods_scan(_, _, _, _, _)
periods_scan(slots, i, periods, current_status, start_slot) ==
    IF i >= Len(slots)
    THEN Append(periods, Period(start_slot, Len(slots), current_status))
    ELSE IF slots[i + 1] # current_status
         THEN periods_scan(slots, i + 1,
                           Append(periods, Period(start_slot, i, current_status)),
                           slots[i + 1], i)
         ELSE periods_scan(slots, i + 1, periods, current_status, start_slot)

\* a faulty variant: the period open at the end of the scan is never closed
slots_to_periods_no_last(slots) ==
    IF slots = <<>> THEN <<>>
    ELSE SubSeq(periods_scan(slots, 1, <<>>, slots[1], 0), 1,
                Len(periods_scan(slots, 1, <<>>, slots[1], 0)) - 1)

slots_to_periods(slots) ==
    IF slots = <<>> THEN <<>>
    ELSE periods_scan(slots, 1, <<>>, slots[1], 0)

\* a faulty variant: only the lengths are compared
schedules_match_len(slots1, slots2) == Len(slots1) = Len(slots2)

schedules_match(slots1, slots2) ==
    IF Len(slots1) # Len(slots2) THEN FALSE ELSE slots1 = slots2

---------------------------------------------------------------------------
\* Dates.  A datetime is held as the record of its calendar date; the dates of
\* the model lie in January 1970 and the local time zone is UTC.

SecondsPerDay == 86400

IsoDate(year, month, day) == [year |-> year, month |-> month, day |-> day]

\* datetime.fromtimestamp(ts), for ts within January 1970
fromtimestamp(ts) == IsoDate(1970, 1, 1 + (ts \div SecondsPerDay))

\* date.strftime("%Y-%m-%d"), held as the number its digits YYYYMMDD spell:
\* the order of these strings is the order of these numbers
strftime_Ymd(date) == date.year * 10000 + date.month * 100 + date.day

\* date.strftime("%d.%m")
strftime_dm(date) == fmt02d(date.day) \o "." \o fmt02d(date.month)

\* date.weekday(), Monday = 0; 1970-01-01 was a Thursday
weekday(date) == (date.day + 2) % 7

---------------------------------------------------------------------------
\* Message text.  Each Cyrillic letter is written as one Latin letter and each
\* emoji as one sign ("#" calendar, "+" battery, "-" low battery), so that a
\* string of the model has the length len() gives the string of the program.
\* A text of several lines is held as the list of its lines, text.split("\n").

DAYS_UA == <<"Ponedilok", "Vivtorok", "Sereda", "Cetver", "P'atnyca", "Subota", "Nedila">>

SOURCE_GITHUB == "outage-data-ua"

SOURCE_YASNO == "app.yasno.ua"

\* sep.join(texts)
RECURSIVE Join(_, _)
Join(sep, texts) ==
    IF texts = <<>> THEN ""
    ELSE IF Len(texts) = 1 THEN texts[1]
    ELSE texts[1] \o sep \o Join(sep, Tail(texts))

\* sep.join(texts) of texts held as lines; between is sep held as lines
\* without its first and last line, which end and begin the texts it joins:
\* <<>> for "\n", <<"", "">> for "\n\n\n"
RECURSIVE JoinLines(_, _)
JoinLines(between, texts) ==
    IF texts = <<>> THEN <<"">>
    ELSE IF Len(texts) = 1 THEN texts[1]
    ELSE texts[1] \o between \o JoinLines(between, Tail(texts))

\* the sum of len(line) over lines[lo..hi], by halves
RECURSIVE SumLen(_, _, _)
SumLen(lines, lo, hi) ==
    IF lo > hi THEN 0
    ELSE IF lo = hi THEN Len(lines[lo])
    ELSE LET mid == (lo + hi) \div 2
         IN  SumLen(lines, lo, mid) + SumLen(lines, mid + 1, hi)

\* len(text) of a text held as lines: the lines and the newlines between them
TextLen(lines) == SumLen(lines, 1, Len(lines)) + (Len(lines) - 1)

\* text.split("\n\n\n") of a text held as lines: three newlines in a row are
\* two empty lines in a row, with a line before and a line after them; the
\* text is cut at the first such place and the rest is split in turn
RECURSIVE SplitTriple(_)
SplitTriple(lines) ==
    LET places == {k \in 2..(Len(lines) - 2) : lines[k] = "" /\ lines[k + 1] = ""}
    IN  IF places = {} THEN <<lines>>
        ELSE LET k == CHOOSE x \in places : \A y \in places : x <= y
             IN  <<SubSeq(lines, 1, k - 1)>>
                 \o SplitTriple(SubSeq(lines, k + 2, Len(lines)))

\* hours is a count of half-hours: an even count is a whole number of hours
format_hours(hours) ==
    IF hours % 2 = 0
    THEN LET n == hours \div 2
         IN  IF n % 10 = 1 /\ n % 100 # 11 THEN str(n) \o " hodyna"
             ELSE IF n % 10 \in {2, 3, 4} /\ n % 100 \notin {12, 13, 14}
                  THEN str(n) \o " hodyny"
                  ELSE str(n) \o " hodyn"
    ELSE str(hours \div 2) \o ".5" \o " hodyny"

period_line(period) ==
    LET emoji      == IF period.is_on THEN "+" ELSE "-"
        hours_text == format_hours(period.hours)
        status_text ==
            IF period.is_on THEN "(" \o hours_text \o " Svitlo e)"
            ELSE "(Svitla nema " \o hours_text \o ")"
    IN  emoji \o period.start \o " - " \o period.end \o " " \o status_text

RECURSIVE total_hours(_, _, _)
total_hours(periods, k, status) ==
    IF k = 0 THEN 0
    ELSE (IF periods[k].is_on = status THEN periods[k].hours ELSE 0)
         + total_hours(periods, k - 1, status)

format_schedule_message(periods, date, sources) ==
    LET day_name    == DAYS_UA[weekday(date) + 1]
        date_str    == strftime_dm(date)
        sources_str == Join(", ", sources)
        total_on    == total_hours(periods, Len(periods), TRUE)
        total_off   == total_hours(periods, Len(periods), FALSE)
        lines ==
            << "# Hrafik vidklucen' na " \o date_str \o " (" \o day_name
                   \o ") [" \o sources_str \o "]:",
               "" >>
            \o [k \in 1..Len(periods) |-> period_line(periods[k])]
            \o << "",
                  "Svitlo e " \o format_hours(total_on),
                  "Svitla nema " \o format_hours(total_off) >>
    IN  lines

---------------------------------------------------------------------------
\* Schedules of the configured groups

EmptyDict == <<>>

\* d[key] = value
Put(d, key, value) ==
    [x \in DOMAIN d \cup {key} |-> IF x = key THEN value ELSE d[x]]

\* sorted(keys) of a set of numbers
RECURSIVE Sorted(_)
Sorted(keys) ==
    IF keys = {} THEN <<>>
    ELSE LET least == CHOOSE x \in keys : \A y \in keys : x <= y
         IN  <<least>> \o Sorted(keys \ {least})

\* list[:2]
FirstTwo(list) == SubSeq(list, 1, Min(2, Len(list)))

\* the set of a list's items
Items(list) == {list[k] : k \in 1..Len(list)}

Schedule(slots, date) == [slots |-> slots, date |-> date]

\* the loop over sorted_days[:2] for one group
RECURSIVE github_days(_, _, _, _, _)
github_days(fact_data, group, days, k, schedules) ==
    IF k > Len(days) THEN schedules
    ELSE LET day_ts   == days[k]
             day_data == Get(Get(fact_data, day_ts, EmptyDict), group, None)
         IN  IF Falsy(day_data)
             THEN github_days(fact_data, group, days, k + 1, schedules)
             ELSE LET date     == fromtimestamp(day_ts)
                      date_str == strftime_Ymd(date)
                      slots    == parse_github_day(day_data)
                  IN  github_days(fact_data, group, days, k + 1,
                                  Put(schedules, date_str, Schedule(slots, date)))

\* a day_ts key is held as the number int(day_ts) gives
extract_github_schedules(data, groups) ==
    LET fact_data == Get(Get(data, "fact", EmptyDict), "data", EmptyDict)
    IN  IF DOMAIN fact_data = {} THEN EmptyDict
        ELSE LET sorted_days == Sorted(DOMAIN fact_data)
             IN  [group \in Items(groups) |->
                     github_days(fact_data, group, FirstTwo(sorted_days), 1, EmptyDict)]

\* group.replace("GPV", "") of the group names in use
group_num(group) ==
    IF group = "GPV12.1" THEN "12.1"
    ELSE IF group = "GPV18.1" THEN "18.1"
    ELSE group

\* the loop over "today", "tomorrow" for one group
RECURSIVE yasno_days(_, _, _, _)
yasno_days(group_data, day_keys, k, schedules) ==
    IF k > Len(day_keys) THEN schedules
    ELSE LET day_data == Get(group_data, day_keys[k], None)
         IN  IF Falsy(day_data) \/ "date" \notin DOMAIN day_data
             THEN yasno_days(group_data, day_keys, k + 1, schedules)
             ELSE LET date     == day_data["date"]
                      date_str == strftime_Ymd(date)
                      slots    == parse_yasno_day(day_data)
                  IN  yasno_days(group_data, day_keys, k + 1,
                                 Put(schedules, date_str, Schedule(slots, date)))

\* the "date" of a day is held as the calendar date its ISO string starts
\* with, which is what parsing it with the offset cut off keeps
extract_yasno_schedules(data, groups) ==
    IF Falsy(data) THEN EmptyDict
    ELSE [group \in {g \in Items(groups) : group_num(g) \in DOMAIN data} |->
             yasno_days(data[group_num(group)], <<"today", "tomorrow">>, 1, EmptyDict)]

---------------------------------------------------------------------------
\* Reconciliation and rendering of one group

\* a day block: the text format_schedule_message returns, with what it was
\* rendered from
Block(periods, date, sources) ==
    [date_str |-> strftime_Ymd(date),
     sources  |-> sources,
     periods  |-> periods,
     msg      |-> format_schedule_message(periods, date, sources)]

\* the blocks one date adds to day_messages
day_blocks(group, github_schedules, yasno_schedules, date_str) ==
    LET github_data  == Get(Get(github_schedules, group, EmptyDict), date_str, None)
        yasno_data   == Get(Get(yasno_schedules, group, EmptyDict), date_str, None)
        github_slots == IF github_data # None THEN github_data.slots ELSE <<>>
        yasno_slots  == IF yasno_data # None THEN yasno_data.slots ELSE <<>>
        date         == IF github_data # None THEN github_data.date ELSE yasno_data.date
    IN  IF github_slots # <<>> /\ yasno_slots # <<>>
        THEN IF schedules_match(github_slots, yasno_slots)
             THEN << Block(slots_to_periods(github_slots), date,
                           <<SOURCE_GITHUB, SOURCE_YASNO>>) >>
             ELSE << Block(slots_to_periods(github_slots), date, <<SOURCE_GITHUB>>),
                     Block(slots_to_periods(yasno_slots), date, <<SOURCE_YASNO>>) >>
        ELSE IF github_slots # <<>>
        THEN << Block(slots_to_periods(github_slots), date, <<SOURCE_GITHUB>>) >>
        ELSE IF yasno_slots # <<>>
        THEN << Block(slots_to_periods(yasno_slots), date, <<SOURCE_YASNO>>) >>
        ELSE <<>>

\* the dates of a group in either source
all_dates(group, github_schedules, yasno_schedules) ==
    DOMAIN Get(github_schedules, group, EmptyDict)
        \cup DOMAIN Get(yasno_schedules, group, EmptyDict)

RECURSIVE blocks_of_dates(_, _, _, _, _)
blocks_of_dates(group, github_schedules, yasno_schedules, dates, k) ==
    IF k > Len(dates) THEN <<>>
    ELSE day_blocks(group, github_schedules, yasno_schedules, dates[k])
         \o blocks_of_dates(group, github_schedules, yasno_schedules, dates, k + 1)

\* day_messages at the end of the loop over sorted_dates
day_messages(group, github_schedules, yasno_schedules) ==
    LET sorted_dates ==
            FirstTwo(Sorted(all_dates(group, github_schedules, yasno_schedules)))
    IN  blocks_of_dates(group, github_schedules, yasno_schedules, sorted_dates, 1)

\* an Optional[str] that is a str
Some(text) == [none |-> FALSE, text |-> text]

format_group_message(group, github_schedules, yasno_schedules) ==
    LET header   == "============ hrupa " \o group_num(group) \o " ============"
        messages == day_messages(group, github_schedules, yasno_schedules)
    IN  IF all_dates(group, github_schedules, yasno_schedules) = {} THEN None
        ELSE IF messages = <<>> THEN None
        ELSE Some(<<header>>
                  \o JoinLines(<<"", "-------------------------------------">>,
                               [k \in 1..Len(messages) |-> messages[k].msg]))

RECURSIVE all_group_messages(_, _, _, _)
all_group_messages(github_schedules, yasno_schedules, groups, k) ==
    IF k > Len(groups) THEN <<>>
    ELSE LET msg == format_group_message(groups[k], github_schedules, yasno_schedules)
         IN  (IF msg # None THEN <<msg.text>> ELSE <<>>)
             \o all_group_messages(github_schedules, yasno_schedules, groups, k + 1)

format_full_message(github_schedules, yasno_schedules, groups) ==
    LET messages == all_group_messages(github_schedules, yasno_schedules, groups, 1)
    IN  IF messages = <<>> THEN None ELSE Some(JoinLines(<<"", "">>, messages))

---------------------------------------------------------------------------
\* Fingerprint and cache file.  SHA-256 is taken as collision-free: a digest is
\* held as the value that was hashed.  json.dumps(..., sort_keys=True) of a
\* dict is held as [json |-> the dict], a dict having no order of keys, and
\* the empty string as [empty |-> ""].

\* a faulty variant: the check of yasno_data made on github_data
compute_combined_hash_one_check(github_data, yasno_data) ==
    [github |-> IF ~Falsy(github_data)
                THEN Get(Get(github_data, "meta", EmptyDict), "contentHash", "")
                ELSE "",
     yasno  |-> IF ~Falsy(github_data) THEN [json |-> yasno_data] ELSE [empty |-> ""]]

compute_combined_hash(github_data, yasno_data) ==
    [github |-> IF ~Falsy(github_data)
                THEN Get(Get(github_data, "meta", EmptyDict), "contentHash", "")
                ELSE "",
     yasno  |-> IF ~Falsy(yasno_data) THEN [json |-> yasno_data] ELSE [empty |-> ""]]

\* a faulty variant: the file is never found
get_cached_hash_missing(file) == None

\* file is the content of CACHE_FILE, None without the file; strip() leaves a
\* hex digest as it is
get_cached_hash(file) == file

---------------------------------------------------------------------------
\* Delivery

max_length == 4000

\* the parts a message is sent in
message_parts(message) ==
    IF TextLen(message) <= max_length THEN <<message>> ELSE SplitTriple(message)

\* a faulty variant: a failed part is skipped and the rest is sent
send_telegram_message_skips(message, creds, fail_at) ==
    IF ~creds THEN [posted |-> <<>>, result |-> FALSE]
    ELSE LET parts == message_parts(message)
         IN  [posted |-> IF fail_at \in 1..Len(parts)
                         THEN SubSeq(parts, 1, fail_at - 1)
                              \o SubSeq(parts, fail_at + 1, Len(parts))
                         ELSE parts,
              result |-> TRUE]

\* creds tells whether both TELEGRAM_BOT_TOKEN and TELEGRAM_CHANNEL_ID are
\* set; the POST of part fail_at raises (none does when fail_at is 0).  posted
\* lists the parts that reached the channel.
send_telegram_message(message, creds, fail_at) ==
    IF ~creds THEN [posted |-> <<>>, result |-> FALSE]
    ELSE LET parts == message_parts(message)
         IN  IF fail_at \in 1..Len(parts)
             THEN [posted |-> SubSeq(parts, 1, fail_at - 1), result |-> FALSE]
             ELSE [posted |-> parts, result |-> TRUE]

---------------------------------------------------------------------------
\* parse_github_day, then slots_to_periods, on one day of hour codes

\* the hour keys a generated day holds lie in a window of MaxCoded successive
\* numbers, which may reach past the hours 1..24
MaxCoded == 2

Codes == {"yes", "no", "first", "second", "maybe", "mfirst", "msecond", "unknown"}

\* the dict of the coded hours of f: {str(hour): f[hour]}
HourDict(f) ==
    LET coded == {h \in DOMAIN f : f[h] # "absent"}
    IN  [key \in {str(h) : h \in coded} |->
            f[CHOOSE h \in coded : str(h) = key]]

GithubDays ==
    {HourDict(f) : f \in UNION {[s..(s + MaxCoded - 1) -> Codes \cup {"absent"}] :
                                s \in 0..(HoursPerDay + 1)}}

InitGithubDay ==
    /\ pc = "parse_github_day"
    /\ arg \in GithubDays
    /\ ret = <<>>
    /\ loc = NoLocals
    /\ cache = None

GithubDayParse ==
    /\ pc = "parse_github_day"
    /\ ret' = parse_github_day(arg)
    /\ pc' = "slots_to_periods"
    /\ UNCHANGED <<arg, loc, cache>>

GithubDayCompress ==
    /\ pc = "slots_to_periods"
    /\ loc' = [slots |-> ret]
    /\ ret' = slots_to_periods(ret)
    /\ pc' = "github_day_done"
    /\ UNCHANGED <<arg, cache>>

NextGithubDay == GithubDayParse \/ GithubDayCompress

SpecGithubDay == InitGithubDay /\ [][NextGithubDay]_vars

\* the status code of an hour as the input gives it
CodeOf(day_data, hour) == Get(day_data, hour_keys[hour], "absent")

\* C8: parse_github_day returns exactly 48 booleans; hour h decides slots
\* 2(h-1) and 2(h-1)+1; only `no`, `first` and `second` make a slot unavailable
\* (both halves, the first, the second); an absent, `yes`, `maybe`, `mfirst`,
\* `msecond` or unrecognised code leaves both halves available.
C8_GithubDayTimeline ==
    pc = "slots_to_periods" =>
        /\ Len(ret) = 48
        /\ \A i \in 1..48 : ret[i] \in BOOLEAN
        /\ \A h \in 1..24 :
              /\ ret[2 * (h - 1) + 1] = (CodeOf(arg, h) \notin {"no", "first"})
              /\ ret[2 * (h - 1) + 2] = (CodeOf(arg, h) \notin {"no", "second"})

C8_Witness ==
    /\ pc = "slots_to_periods"
    /\ CodeOf(arg, 7) = "msecond"
    /\ CodeOf(arg, 8) = "second"
    /\ ret[13] /\ ret[14] /\ ret[15] /\ ~ret[16]

Hour3No4First == [key \in {"3", "4"} |-> IF key = "3" THEN "no" ELSE "first"]

\* C9 as stated: with hour 3 `no`, hour 4 `first` and every other hour
\* default, the periods are 00:00-02:00 available, one outage 02:00-04:30, and
\* an available period to 24:00.
C9_Hour3No4First_Stated ==
    (pc = "github_day_done" /\ arg = Hour3No4First) =>
        /\ Len(ret) = 3
        /\ ret[1].start = "00:00" /\ ret[1].end = "02:00" /\ ret[1].is_on
        /\ ret[2].start = "02:00" /\ ret[2].end = "04:30" /\ ~ret[2].is_on
        /\ ret[3].start = "04:30" /\ ret[3].end = "24:00" /\ ret[3].is_on

\* C9, amended: with hour 3 `no`, hour 4 `first` and every other hour default,
\* the periods are 00:00-02:00 available (2 h), one single outage 02:00-03:30
\* (1.5 h), and 03:30-24:00 available (20.5 h).
C9_Hour3No4First ==
    (pc = "github_day_done" /\ arg = Hour3No4First) =>
        ret = << [start |-> "00:00", end |-> "02:00", is_on |-> TRUE, hours |-> 4],
                 [start |-> "02:00", end |-> "03:30", is_on |-> FALSE, hours |-> 3],
                 [start |-> "03:30", end |-> "24:00", is_on |-> TRUE, hours |-> 41] >>

C9_Witness ==
    /\ pc = "github_day_done"
    /\ arg = Hour3No4First
    /\ Len(ret) = 3
    /\ ~ret[2].is_on

---------------------------------------------------------------------------
\* slots_to_periods on 48-slot timelines

\* a generated timeline changes status at no more than MaxChanges slots, or
\* alternates in blocks of equal length
MaxChanges == 2

\* the sets of no more than n slots, of the slots 1..47, to change status at
RECURSIVE ChangeSets(_)
ChangeSets(n) ==
    IF n = 0 THEN {{}}
    ELSE LET fewer == ChangeSets(n - 1)
         IN  fewer \cup {changes \cup {slot} : changes \in fewer, slot \in 1..(NumSlots - 1)}

\* the timeline that starts with status first and flips at each slot of changes
Timeline(first, changes) ==
    [i \in 1..NumSlots |->
        (Cardinality({slot \in changes : slot <= i - 1}) % 2 = 0) = first]

Timelines ==
    {Timeline(first, changes) : first \in BOOLEAN, changes \in ChangeSets(MaxChanges)}
    \cup {[i \in 1..NumSlots |-> (((i - 1) \div block) % 2 = 0) = first] :
            first \in BOOLEAN, block \in 1..HoursPerDay}

InitPeriods ==
    /\ pc = "slots_to_periods"
    /\ arg \in Timelines
    /\ ret = <<>>
    /\ loc = NoLocals
    /\ cache = None

PeriodsCompress ==
    /\ pc = "slots_to_periods"
    /\ ret' = slots_to_periods(arg)
    /\ pc' = "periods_done"
    /\ UNCHANGED <<arg, loc, cache>>

NextPeriods == PeriodsCompress

SpecPeriods == InitPeriods /\ [][NextPeriods]_vars

RECURSIVE SumHours(_, _)
SumHours(periods, k) ==
    IF k = 0 THEN 0 ELSE periods[k].hours + SumHours(periods, k - 1)

\* C5: the periods of a 48-slot timeline are non-empty and ordered: the first
\* starts at 00:00, each next one starts where the one before ends, the last
\* ends at 24:00, every duration is a positive number of half-hours, and the
\* durations sum to 24.0 hours (48 half-hours).
C5_PeriodsCoverDay ==
    pc = "periods_done" =>
        /\ Len(ret) >= 1
        /\ ret[1].start = "00:00"
        /\ \A k \in 1..(Len(ret) - 1) : ret[k + 1].start = ret[k].end
        /\ ret[Len(ret)].end = "24:00"
        /\ \A k \in 1..Len(ret) : ret[k].hours \in Nat /\ ret[k].hours >= 1
        /\ SumHours(ret, Len(ret)) = 48

C5_Witness ==
    /\ pc = "periods_done"
    /\ Len(ret) = 3
    /\ ret[2].start = "07:30"
    /\ ret[2].end = "19:00"

---------------------------------------------------------------------------
\* parse_yasno_day, one interval at a time

\* a generated day holds no more than MaxIntervals intervals
MaxIntervals == 2

\* minutes of a generated bound; Absent stands for a key the interval lacks
Absent == -1

BoundMinutes == {0, 90, 1470}

IntervalTypes == {"NotPlanned", "Definite", "Possible"}

IntervalDict(start, end, type) ==
    [key \in (IF start = Absent THEN {} ELSE {"start"})
             \cup (IF end = Absent THEN {} ELSE {"end"})
             \cup (IF type = "absent" THEN {} ELSE {"type"}) |->
        IF key = "start" THEN start ELSE IF key = "end" THEN end ELSE type]

Intervals ==
    {IntervalDict(start, end, type) :
        start \in BoundMinutes \cup {Absent},
        end \in BoundMinutes \cup {Absent},
        type \in IntervalTypes \cup {"absent"}}

IntervalLists == UNION {[1..n -> Intervals] : n \in 0..MaxIntervals}

YasnoDays ==
    {[key \in {"date"} |-> IsoDate(1970, 1, 2)]}
    \cup {[key \in {"date", "slots"} |->
              IF key = "date" THEN IsoDate(1970, 1, 2) ELSE intervals] :
          intervals \in IntervalLists}

InitYasnoDay ==
    /\ pc = "parse_yasno_day"
    /\ arg \in YasnoDays
    /\ ret = <<>>
    /\ loc = NoLocals
    /\ cache = None

YasnoDayEnter ==
    /\ pc = "parse_yasno_day"
    /\ ret' = AllOn
    /\ IF Falsy(arg) \/ "slots" \notin DOMAIN arg
       THEN pc' = "yasno_day_done" /\ loc' = loc
       ELSE pc' = "yasno_loop" /\ loc' = [k |-> 1, before |-> AllOn]
    /\ UNCHANGED <<arg, cache>>

YasnoDayInterval ==
    /\ pc = "yasno_loop"
    /\ loc.k <= Len(arg["slots"])
    /\ ret' = yasno_apply(ret, arg["slots"][loc.k])
    /\ loc' = [k |-> loc.k + 1, before |-> ret]
    /\ UNCHANGED <<pc, arg, cache>>

YasnoDayReturn ==
    /\ pc = "yasno_loop"
    /\ loc.k > Len(arg["slots"])
    /\ pc' = "yasno_day_done"
    /\ UNCHANGED <<arg, ret, loc, cache>>

NextYasnoDay == YasnoDayEnter \/ YasnoDayInterval \/ YasnoDayReturn

SpecYasnoDay == InitYasnoDay /\ [][NextYasnoDay]_vars

\* the stepped loop returns what parse_yasno_day returns
YasnoDayStepsAgree == pc = "yasno_day_done" => ret = parse_yasno_day(arg)

\* slot i (from 0) lies in the index range the interval's bounds give
Covers(slot, i) ==
    /\ Get(slot, "start", 0) \div 30 <= i
    /\ i < Get(slot, "end", 0) \div 30

\* the interval the loop applied last
LastInterval == arg["slots"][loc.k - 1]

\* C6: a slot of the finished timeline is unavailable only if an interval of
\* type Definite (the firm outage) covers it, and applying an interval of any
\* other type makes no slot unavailable.
C6_OnlyFirmOutage ==
    /\ pc = "yasno_day_done" =>
          \A i \in 1..48 :
              ~ret[i] =>
                  \E k \in 1..Len(arg["slots"]) :
                      /\ Covers(arg["slots"][k], i - 1)
                      /\ Get(arg["slots"][k], "type", "absent") = "Definite"
    /\ (pc = "yasno_loop" /\ loc.k > 1
            /\ Get(LastInterval, "type", "absent") # "Definite") =>
          \A i \in 1..48 : ~ret[i] => ~loc.before[i]

\* C10: applying an interval that lacks its start, its end or both leaves all
\* 48 slots as they were, whatever its type and its other bound.
C10_MissingBoundNoOp ==
    (pc = "yasno_loop" /\ loc.k > 1
         /\ ("start" \notin DOMAIN LastInterval \/ "end" \notin DOMAIN LastInterval)) =>
        ret = loc.before

---------------------------------------------------------------------------
\* extract_github_schedules, extract_yasno_schedules and format_group_message
\* for each group, on generated payloads of the two sources

\* the days (of January 1970, from the 1st) a generated payload may name
NumDays == 3

Groups == <<"GPV12.1", "GPV18.1">>

DayA == [key \in {"3"} |-> "no"]

\* the intervals that give the timeline of DayA, and others that do not
IntervalsA == <<[start |-> 120, end |-> 180, type |-> "Definite"]>>

IntervalsC == <<[start |-> 0, end |-> 90, type |-> "Definite"]>>

\* what one day of fact_data holds for the two groups
GithubDayEntries ==
    {[group \in {"GPV12.1"} |-> DayA], [group \in {"GPV18.1"} |-> DayA]}
    \cup {[group \in {"GPV12.1", "GPV18.1"} |-> IF group = "GPV12.1" THEN day ELSE DayA] :
            day \in {EmptyDict, DayA}}

GithubPayload(fact_data, contentHash) ==
    [key \in {"fact", "meta"} |->
        IF key = "fact" THEN [data |-> fact_data]
        ELSE [contentHash |-> contentHash]]

GithubFacts ==
    UNION {[{day * SecondsPerDay : day \in days} -> GithubDayEntries] :
              days \in SUBSET (0..(NumDays - 1))}

YasnoDay(day, intervals) ==
    [key \in {"date", "slots"} |->
        IF key = "date" THEN IsoDate(1970, 1, day) ELSE intervals]

DayDict(today, tomorrow) ==
    [key \in (IF today = None THEN {} ELSE {"today"})
             \cup (IF tomorrow = None THEN {} ELSE {"tomorrow"}) |->
        IF key = "today" THEN today ELSE tomorrow]

\* a group of source B: "today" alone, "today" with the day after it as
\* "tomorrow", "tomorrow" alone, or neither
YasnoGroups ==
    {DayDict(YasnoDay(day, intervals), tomorrow) :
        day \in 1..NumDays, intervals \in {IntervalsA, IntervalsC},
        tomorrow \in {None}}
    \cup {DayDict(YasnoDay(day, intervals), YasnoDay(day + 1, IntervalsA)) :
            day \in 1..NumDays, intervals \in {IntervalsA, IntervalsC}}
    \cup {DayDict(None, YasnoDay(day, IntervalsA)) : day \in 1..NumDays}
    \cup {DayDict(None, None)}

YasnoPayloads ==
    {None} \cup {[key \in {"12.1"} |-> group_data] : group_data \in YasnoGroups}

InitGroup ==
    /\ pc = "extract"
    /\ arg \in {[github_data |-> GithubPayload(fact_data, "a"),
                 yasno_data |-> yasno_data,
                 groups |-> Groups] :
                   fact_data \in GithubFacts, yasno_data \in YasnoPayloads}
    /\ ret = <<>>
    /\ loc = NoLocals
    /\ cache = None

GroupExtract ==
    /\ pc = "extract"
    /\ loc' = [github_schedules |-> extract_github_schedules(arg.github_data, arg.groups),
               yasno_schedules  |-> extract_yasno_schedules(arg.yasno_data, arg.groups)]
    /\ pc' = "format"
    /\ UNCHANGED <<arg, ret, cache>>

GroupFormat ==
    /\ pc = "format"
    /\ ret' = [message |->
                   [group \in Items(arg.groups) |->
                       format_group_message(group, loc.github_schedules,
                                            loc.yasno_schedules)],
               day_messages |->
                   [group \in Items(arg.groups) |->
                       day_messages(group, loc.github_schedules, loc.yasno_schedules)]]
    /\ pc' = "group_done"
    /\ UNCHANGED <<arg, loc, cache>>

NextGroup == GroupExtract \/ GroupFormat

SpecGroup == InitGroup /\ [][NextGroup]_vars

\* the places in a group's day blocks of the blocks of one date
BlocksAt(blocks, date_str) == {k \in 1..Len(blocks) : blocks[k].date_str = date_str}

\* the timeline a source's schedules hold for a group and date
SlotsOf(schedules, group, date_str) == schedules[group][date_str].slots

\* the dates both sources' schedules hold for a group
DatesOfBoth(group) ==
    DOMAIN Get(loc.github_schedules, group, EmptyDict)
        \cap DOMAIN Get(loc.yasno_schedules, group, EmptyDict)

\* the dates either source's schedules hold for a group
DatesOfEither(group) ==
    DOMAIN Get(loc.github_schedules, group, EmptyDict)
        \cup DOMAIN Get(loc.yasno_schedules, group, EmptyDict)

\* one block of both labels when the timelines agree, else a github block and
\* right after it a yasno block
Reconciled(group, date_str) ==
    LET blocks == ret.day_messages[group]
        at     == BlocksAt(blocks, date_str)
    IN  IF SlotsOf(loc.github_schedules, group, date_str)
               = SlotsOf(loc.yasno_schedules, group, date_str)
        THEN /\ Cardinality(at) = 1
             /\ \A k \in at : blocks[k].sources = <<"outage-data-ua", "app.yasno.ua">>
        ELSE /\ Cardinality(at) = 2
             /\ \E k \in at :
                   /\ k + 1 \in at
                   /\ blocks[k].sources = <<"outage-data-ua">>
                   /\ blocks[k + 1].sources = <<"app.yasno.ua">>

\* C4 as stated: for every group and Day Key for which both sources supply a
\* timeline, there is exactly one day block, labelled with both sources, when
\* the timelines are identical, and exactly two, github's right before
\* yasno's, when they differ.
C4_Reconciled_Stated ==
    pc = "group_done" =>
        \A group \in Items(arg.groups) :
            \A date_str \in DatesOfBoth(group) : Reconciled(group, date_str)

\* C4, amended: the same, for every group and every Day Key that both sources
\* supply a timeline for and that is one of the two earliest Day Keys the
\* group has in either source's schedules.
C4_Reconciled ==
    pc = "group_done" =>
        \A group \in Items(arg.groups) :
            \A date_str \in DatesOfBoth(group) :
                Cardinality({d \in DatesOfEither(group) : d < date_str}) < 2
                    => Reconciled(group, date_str)

C4_Witness ==
    /\ pc = "group_done"
    /\ DatesOfBoth("GPV12.1") = {19700102, 19700103}
    /\ Len(ret.day_messages["GPV12.1"]) = 3
    /\ ret.day_messages["GPV12.1"][1].sources = <<"outage-data-ua">>
    /\ ret.day_messages["GPV12.1"][2].sources = <<"app.yasno.ua">>
    /\ ret.day_messages["GPV12.1"][3].sources = <<"outage-data-ua", "app.yasno.ua">>

\* the dates a group has data for in the payloads of the two sources
PayloadDates(group) ==
    LET fact_data == arg.github_data["fact"]["data"]
    IN  {19700101 + (ts \div 86400) :
            ts \in {t \in DOMAIN fact_data :
                       /\ group \in DOMAIN fact_data[t]
                       /\ DOMAIN fact_data[t][group] # {}}}
        \cup (IF arg.yasno_data = None \/ group_num(group) \notin DOMAIN arg.yasno_data
              THEN {}
              ELSE {19700100 + day.date.day :
                       day \in {arg.yasno_data[group_num(group)][key] :
                                   key \in DOMAIN arg.yasno_data[group_num(group)]}})

\* C7: for every group the day blocks are in ascending Day Key order and cover
\* exactly the earliest two dates (or the only one) the group has data for in
\* either source's payload.
C7_EarliestTwoDates ==
    pc = "group_done" =>
        \A group \in Items(arg.groups) :
            LET blocks == ret.day_messages[group]
                dates  == PayloadDates(group)
            IN  /\ \A k \in 1..(Len(blocks) - 1) :
                       blocks[k].date_str <= blocks[k + 1].date_str
                /\ {blocks[k].date_str : k \in 1..Len(blocks)}
                       = {d \in dates : Cardinality({e \in dates : e < d}) < 2}

---------------------------------------------------------------------------
\* Runs of main, one after another, on fetched payloads

DayFlicker == [key \in {str(hour) : hour \in 1..HoursPerDay} |-> "first"]

\* fact_data of the given days, each holding day_data for both groups
FactOf(days, day_data) ==
    [ts \in {day * SecondsPerDay : day \in days} |->
        [group \in {"GPV12.1", "GPV18.1"} |-> day_data]]

\* what fetch_github_data may return: None, a payload without days, two
\* payloads of one contentHash, one of another, and one with a long message
FetchedGithub ==
    {None,
     GithubPayload(EmptyDict, "e"),
     GithubPayload(FactOf({1}, DayA), "a"),
     GithubPayload(FactOf({1, 2}, DayA), "a"),
     GithubPayload(FactOf({2}, DayA), "b"),
     GithubPayload(FactOf({1, 2}, DayFlicker), "f")}

\* what fetch_yasno_data may return
FetchedYasno ==
    {None,
     [key \in {"12.1"} |-> DayDict(YasnoDay(2, IntervalsA), None)],
     [key \in {"12.1"} |-> DayDict(YasnoDay(2, IntervalsC), None)]}

NoRun == [outcome |-> "none"]

InitMain ==
    /\ pc = "start"
    /\ arg = NoRun
    /\ ret = NoRun
    /\ loc = NoLocals
    /\ cache = None

\* what a run leaves behind: its outcome, the cache file as it found it, what
\* it computed, rendered and sent, and whether it came right after a run of
\* the same payloads whose delivery failed, with the message of that run
Run(outcome, locals, message, send_called, parts, posted) ==
    [outcome |-> outcome, persisted |-> locals.persisted,
     combined_hash |-> locals.combined_hash,
     message |-> message, send_called |-> send_called, parts |-> parts,
     posted |-> posted,
     retry |-> locals.retry, prev_message |-> locals.prev_message]

\* the delivery of a run reached the channel with every part of its message
DeliveredWhole(run) == run.send_called /\ run.posted = run.parts

\* the delivery of a run was attempted and failed
DeliveryFailed(run) == run.send_called /\ run.posted # run.parts

\* main, from the fetches to the check for updates
MainFetch(github_data, yasno_data) ==
    /\ pc \in {"start", "ran"}
    /\ LET combined_hash == compute_combined_hash(github_data, yasno_data)
           cached_hash   == get_cached_hash(cache)
           retry         == /\ pc = "ran"
                            /\ DeliveryFailed(ret)
                            /\ arg.github_data = github_data
                            /\ arg.yasno_data = yasno_data
           locals(hash)  == [persisted |-> cache, combined_hash |-> hash,
                             retry |-> retry,
                             prev_message |-> IF retry THEN ret.message ELSE None]
       IN  /\ arg' = [github_data |-> github_data, yasno_data |-> yasno_data]
           /\ IF Falsy(github_data) /\ Falsy(yasno_data)
              THEN /\ ret' = Run("no_data", locals(None), None, FALSE, <<>>, <<>>)
                   /\ pc' = "ran"
                   /\ loc' = NoLocals
              ELSE IF combined_hash = cached_hash
              THEN /\ ret' = Run("no_update", locals(combined_hash), None, FALSE, <<>>, <<>>)
                   /\ pc' = "ran"
                   /\ loc' = NoLocals
              ELSE /\ ret' = NoRun
                   /\ pc' = "render"
                   /\ loc' = locals(combined_hash)
    /\ cache' = cache

\* main, from the extraction of the schedules to the generated message
MainRender ==
    /\ pc = "render"
    /\ LET groups           == Groups
           github_schedules == IF ~Falsy(arg.github_data)
                               THEN extract_github_schedules(arg.github_data, groups)
                               ELSE EmptyDict
           yasno_schedules  == IF ~Falsy(arg.yasno_data)
                               THEN extract_yasno_schedules(arg.yasno_data, groups)
                               ELSE EmptyDict
       IN  \E message \in {format_full_message(github_schedules, yasno_schedules, groups)} :
               IF message = None
               THEN /\ ret' = Run("no_message", loc, None, FALSE, <<>>, <<>>)
                    /\ pc' = "ran"
                    /\ loc' = NoLocals
               ELSE /\ ret' = ret
                    /\ pc' = "send"
                    /\ loc' = [persisted |-> loc.persisted,
                               combined_hash |-> loc.combined_hash,
                               retry |-> loc.retry,
                               prev_message |-> loc.prev_message,
                               message |-> message]
    /\ UNCHANGED <<arg, cache>>

\* main, from send_telegram_message to its end; the cache file is written by
\* save_hash
MainSend(creds, fail_at) ==
    /\ pc = "send"
    /\ \E sent \in {send_telegram_message(loc.message.text, creds, fail_at)} :
           /\ ret' = Run(IF sent.result THEN "saved" ELSE "not_saved", loc, loc.message,
                         TRUE, message_parts(loc.message.text), sent.posted)
           /\ cache' = IF sent.result THEN loc.combined_hash ELSE cache
    /\ pc' = "ran"
    /\ loc' = NoLocals
    /\ arg' = arg

NextMain ==
    \/ \E github_data \in FetchedGithub, yasno_data \in FetchedYasno :
           MainFetch(github_data, yasno_data)
    \/ MainRender
    \/ \E creds \in BOOLEAN, fail_at \in 0..Len(Groups) : MainSend(creds, fail_at)

SpecMain == InitMain /\ [][NextMain]_vars

\* C1: a run overwrites the persisted fingerprint only when its delivery
\* succeeded for the whole message; a run whose delivery fails (a part that
\* fails after earlier parts were sent, or missing credentials) leaves it
\* unchanged, and the next run with the same payloads finds a fingerprint
\* different from the persisted one and attempts delivery of the same message.
C1_SavedOnlyWhenDelivered ==
    pc = "ran" =>
        /\ cache # ret.persisted =>
              (DeliveredWhole(ret) /\ cache = ret.combined_hash)
        /\ DeliveryFailed(ret) => cache = ret.persisted
        /\ ret.retry =>
              /\ ret.combined_hash # ret.persisted
              /\ ret.send_called
              /\ ret.message = ret.prev_message

\* a run retries what the run before it failed to deliver whole: its second
\* part failed after its first was sent, and the fingerprint was kept
C1_Witness ==
    /\ pc = "ran"
    /\ ret.retry
    /\ ret.outcome = "not_saved"
    /\ Len(ret.parts) = 2
    /\ Len(ret.posted) = 1
    /\ cache = ret.persisted
    /\ cache # None

\* C2: a run whose newly computed fingerprint equals the persisted one renders
\* no message, never calls send_telegram_message and leaves the persisted
\* fingerprint unchanged.
C2_NoUpdateNoDelivery ==
    (pc = "ran" /\ ret.outcome # "no_data" /\ ret.combined_hash = ret.persisted) =>
        /\ ret.message = None
        /\ ~ret.send_called
        /\ ret.posted = <<>>
        /\ cache = ret.persisted

C2_Witness ==
    /\ pc = "ran"
    /\ ret.outcome = "no_update"
    /\ ret.combined_hash = ret.persisted
    /\ cache = ret.persisted

---------------------------------------------------------------------------
\* compute_combined_hash on two pairs of payloads

\* a source A payload whose "meta" is the given dict, or is absent with None
GithubWithMeta(fact_data, meta) ==
    [key \in {"fact"} \cup (IF meta = None THEN {} ELSE {"meta"}) |->
        IF key = "fact" THEN [data |-> fact_data] ELSE meta]

HashedGithub ==
    {None}
    \cup {GithubWithMeta(fact_data, meta) :
            fact_data \in {FactOf({1}, DayA), FactOf({1}, DayFlicker)},
            meta \in {None, EmptyDict, [contentHash |-> "a"], [contentHash |-> "b"]}}

HashedYasno ==
    {None, EmptyDict,
     [key \in {"12.1"} |-> DayDict(YasnoDay(2, IntervalsA), None)],
     [key \in {"12.1"} |-> DayDict(YasnoDay(2, IntervalsC), None)]}

PayloadPairs ==
    {[github_data |-> github_data, yasno_data |-> yasno_data] :
        github_data \in HashedGithub, yasno_data \in HashedYasno}

InitHash ==
    /\ pc = "compute_combined_hash"
    /\ arg \in [{"first", "second"} -> PayloadPairs]
    /\ ret = <<>>
    /\ loc = NoLocals
    /\ cache = None

HashBoth ==
    /\ pc = "compute_combined_hash"
    /\ ret' = [which \in {"first", "second"} |->
                  compute_combined_hash(arg[which].github_data, arg[which].yasno_data)]
    /\ pc' = "hash_done"
    /\ UNCHANGED <<arg, loc, cache>>

NextHash == HashBoth

SpecHash == InitHash /\ [][NextHash]_vars

\* both pairs hold a source A payload with its content token and a source B
\* payload with content
BothWhole ==
    \A which \in {"first", "second"} :
        /\ arg[which].github_data # None
        /\ "meta" \in DOMAIN arg[which].github_data
        /\ "contentHash" \in DOMAIN arg[which].github_data["meta"]
        /\ arg[which].yasno_data # None
        /\ DOMAIN arg[which].yasno_data # {}

\* C3 as stated: two pairs of payloads that differ in the content of a field
\* of either source have different digests.
C3_AnyChangeChangesDigest_Stated ==
    (pc = "hash_done" /\ BothWhole /\ arg["first"] # arg["second"]) =>
        ret["first"] # ret["second"]

\* the content token of a source A payload, empty without the payload, its
\* "meta" or the token
TokenOf(github_data) ==
    IF github_data = None THEN ""
    ELSE IF "meta" \notin DOMAIN github_data THEN ""
    ELSE IF "contentHash" \notin DOMAIN github_data["meta"] THEN ""
    ELSE github_data["meta"]["contentHash"]

\* the content of a source B payload, empty without the payload
ContentOf(yasno_data) == IF yasno_data = None THEN EmptyDict ELSE yasno_data

\* C3, amended: two pairs of payloads have different digests exactly when
\* they differ in source A's meta.contentHash token (empty when the payload,
\* its meta or the token is absent) or in the content of any field of source
\* B's payload (empty when absent); a change of any other field of source A
\* leaves the digest as it was.
C3_AnyChangeChangesDigest ==
    pc = "hash_done" =>
        (ret["first"] # ret["second"]) =
            (\/ TokenOf(arg["first"].github_data) # TokenOf(arg["second"].github_data)
             \/ ContentOf(arg["first"].yasno_data) # ContentOf(arg["second"].yasno_data))

C3_Witness ==
    /\ pc = "hash_done"
    /\ BothWhole
    /\ arg["first"].github_data = arg["second"].github_data
    /\ arg["first"].yasno_data # arg["second"].yasno_data
    /\ ret["first"] # ret["second"]

====
